---- MODULE Spec2Model ----
(***************************************************************************)
(* The worker pool of src/src/tools/thread_pool/code.rs: ThreadPool::new,  *)
(* ThreadPool::execute, Drop for ThreadPool and the worker loop of         *)
(* Worker::new, over an mpsc channel whose receiver sits in Arc<Mutex<_>>. *)
(* A job is a closure; running it either returns or panics.                *)
(* Then the mutex-protected counter of src/src/tools/shared_state/code.rs  *)
(* and the two channel programs of src/src/tools/message_passing/code.rs,  *)
(* each under a specification of its own.                                  *)
(***************************************************************************)
EXTENDS Integers, Sequences, FiniteSets, TLC

\* ---------------------------------------------------------------- bounds
MaxWorkers == 2
MaxProducers == 2
MaxJobs == 4
MaxThreads == 2
MaxIncrements == 2
MaxSenders == 2
MaxMessages == 4

Workers == 0 .. (MaxWorkers - 1)
Producers == 1 .. MaxProducers
Kinds == {"ok", "panic"}
NoJob == [prod |-> 0, idx |-> 0, kind |-> "none"]
NoHolder == -1

VARIABLES
    size,       \* the argument of ThreadPool::new
    nprod,      \* number of threads calling execute on the pool
    ntasks,     \* number of execute calls each of them makes
    mainPc,     \* position of the thread that owns the pool
    unwinding,  \* the owner is unwinding from a panic of a submitter
    sender,     \* ThreadPool.sender: "Some" or "None"
    queue,      \* the jobs in the channel, oldest first
    lock,       \* holder of the receiver mutex, or NoHolder
    poisoned,   \* a thread panicked while it held the receiver mutex
    wpc,        \* position of each worker thread
    cur,        \* the job a worker dequeued and is running
    handle,     \* Worker.thread is Some
    joinIdx,    \* index of the drop loop over workers
    ppc,        \* position of each submitting thread
    sent,       \* the jobs each submitter's execute calls have queued, in order
    startLog,   \* <<job, worker>> in order of dequeue
    doneLog     \* jobs in order of the end of their execution

\* shared_state::run
VARIABLES
    num_threads,            \* argument of run
    increments_per_thread,  \* argument of run
    value,                  \* Counter.value: the usize inside the mutex
    vlock,                  \* holder of Counter.value's mutex, or NoHolder
    tpc,                    \* position of each incrementing thread
    ti,                     \* loop index i of each incrementing thread
    tmp,                    \* the value a thread loaded for *num += 1
    cpc,                    \* position of run
    cidx,                   \* index of run's spawn loop, then of its join loop
    final_value             \* run's final_value

\* message_passing::run_mpsc and run_crossbeam
VARIABLES
    num_senders,            \* argument
    messages_per_sender,    \* argument
    chan,                   \* the messages in the channel, oldest first
    tx,                     \* the original sender is alive
    rx,                     \* the original receiver is still held by the spawning thread
    spc,                    \* position of each sender thread
    msg_num,                \* loop index of each sender thread
    rpc,                    \* position of each receiver thread
    count,                  \* count of each receiver thread
    received,               \* <<sender, msg_num, receiver>> in order of receipt
    mpc,                    \* position of run_mpsc / run_crossbeam
    midx                    \* index of its spawn and join loops

poolVars == <<size, nprod, ntasks, mainPc, unwinding, sender, queue, lock, poisoned, wpc,
              cur, handle, joinIdx, ppc, sent, startLog, doneLog>>

counterVars == <<num_threads, increments_per_thread, value, vlock, tpc, ti, tmp, cpc,
                 cidx, final_value>>

msgVars == <<num_senders, messages_per_sender, chan, tx, rx, spc, msg_num, rpc, count,
             received, mpc, midx>>

demoVars == <<counterVars, msgVars>>

vars == <<poolVars, counterVars, msgVars>>

Threads == 0 .. (MaxThreads - 1)
Senders == 0 .. (MaxSenders - 1)
\* let num_receivers = 2
NumReceivers == 2
Receivers == 0 .. (NumReceivers - 1)

\* The programs a specification does not run stay as they are before their call.
CounterIdle ==
    /\ num_threads = 0
    /\ increments_per_thread = 0
    /\ value = 0
    /\ vlock = NoHolder
    /\ tpc = [t \in Threads |-> "unborn"]
    /\ ti = [t \in Threads |-> 0]
    /\ tmp = [t \in Threads |-> 0]
    /\ cpc = "idle"
    /\ cidx = 0
    /\ final_value = 0

MsgIdle ==
    /\ num_senders = 0
    /\ messages_per_sender = 0
    /\ chan = <<>>
    /\ tx = FALSE
    /\ rx = FALSE
    /\ spc = [s \in Senders |-> "unborn"]
    /\ msg_num = [s \in Senders |-> 0]
    /\ rpc = [r \in Receivers |-> "unborn"]
    /\ count = [r \in Receivers |-> 0]
    /\ received = <<>>
    /\ mpc = "idle"
    /\ midx = 0

\* ------------------------------------------------------------- helpers
Terminated(w) == wpc[w] \in {"done", "panicked"}

\* The receiver lives in an Arc cloned into every worker closure; the clone that
\* ThreadPool::new holds is released when new returns.
ReceiverAlive == \E w \in Workers : wpc[w] \in {"lock", "recv", "run"}

\* assert!(size > 0)
NewAssertsNoCheck(n) == TRUE
NewAsserts(n) == n > 0

\* Sender::send: the job goes to the tail of the channel.
SendOverwrite(q, j) == IF Len(q) > 0 THEN [q EXCEPT ![Len(q)] = j] ELSE <<j>>
Send(q, j) == Append(q, j)

\* mpsc::channel() is unbounded: send never waits for room.
SendReadyBounded(q) == Len(q) < 1
SendReady(q) == TRUE

\* Receiver::recv returns Err only when the channel is empty and every sender is gone.
RecvDisconnectedOnClose(q, s) == s = "None"
RecvNeverDisconnected(q, s) == FALSE
RecvDisconnected(q, s) == Len(q) = 0 /\ s = "None"

\* Receiver::recv takes the oldest message out of the channel.
RecvNewest(q) == [job |-> q[Len(q)], rest |-> SubSeq(q, 1, Len(q) - 1)]
RecvPeek(q) == [job |-> Head(q), rest |-> q]
RecvPop(q) == [job |-> Head(q), rest |-> Tail(q)]

\* The MutexGuard of receiver.lock().unwrap() is a temporary of the let statement:
\* it is dropped, and the mutex released, when recv has returned.
GuardHeldThroughJob(w) == w
GuardAfterRecv(w) == NoHolder

\* A guard still held by w is dropped when w's loop iteration ends or unwinds.
GuardDropped(w) == IF lock = w THEN NoHolder ELSE lock

\* worker.thread.take()
TakeHandleKeep(h, i) == h
TakeHandle(h, i) == [h EXCEPT ![i] = FALSE]

\* thread.join() returns once the thread has ended.
JoinReadyNoWait(w) == TRUE
JoinReady(w) == Terminated(w)

\* ---------------------------------------------------------------- Init
Init ==
    /\ size \in 0 .. MaxWorkers
    /\ nprod \in 1 .. MaxProducers
    /\ ntasks \in 0 .. MaxJobs
    /\ nprod * ntasks <= MaxJobs
    /\ mainPc = "new"
    /\ unwinding = FALSE
    /\ sender = "None"
    /\ queue = <<>>
    /\ lock = NoHolder
    /\ poisoned = FALSE
    /\ wpc = [w \in Workers |-> "unborn"]
    /\ cur = [w \in Workers |-> NoJob]
    /\ handle = [w \in Workers |-> FALSE]
    /\ joinIdx = 0
    /\ ppc = [p \in Producers |-> "idle"]
    /\ sent = [p \in Producers |-> <<>>]
    /\ startLog = <<>>
    /\ doneLog = <<>>
    /\ CounterIdle
    /\ MsgIdle

\* ------------------------------------------------------ ThreadPool::new
New ==
    /\ mainPc = "new"
    /\ IF NewAsserts(size)
       THEN /\ mainPc' = "submit"
            /\ sender' = "Some"
            /\ wpc' = [w \in Workers |-> IF w < size THEN "lock" ELSE "unborn"]
            /\ handle' = [w \in Workers |-> w < size]
            /\ ppc' = [p \in Producers |-> IF p <= nprod THEN "run" ELSE "idle"]
       ELSE /\ mainPc' = "new_panicked"
            /\ UNCHANGED <<sender, wpc, handle, ppc>>
    /\ UNCHANGED <<demoVars, size, nprod, ntasks, unwinding, queue, lock, poisoned, cur, joinIdx,
                   sent, startLog, doneLog>>

\* -------------------------------------------------- ThreadPool::execute
Execute(p) ==
    /\ mainPc = "submit"
    /\ ppc[p] = "run"
    /\ Len(sent[p]) < ntasks
    /\ SendReady(queue)
    /\ \E k \in Kinds :
         LET job == [prod |-> p, idx |-> Len(sent[p]) + 1, kind |-> k] IN
         IF sender = "Some" /\ ReceiverAlive
         THEN /\ queue' = Send(queue, job)
              /\ sent' = [sent EXCEPT ![p] = Append(@, k)]
              /\ UNCHANGED ppc
         ELSE /\ ppc' = [ppc EXCEPT ![p] = "panicked"]
              /\ UNCHANGED <<queue, sent>>
    /\ UNCHANGED <<demoVars, size, nprod, ntasks, mainPc, unwinding, sender, lock, poisoned, wpc,
                   cur, handle, joinIdx, startLog, doneLog>>

\* --------------------------------------------------------- worker loop
Alive == mainPc # "aborted"

\* receiver.lock().unwrap(): lock() on a poisoned mutex returns Err and the
\* unwrap panics, which drops the guard inside the error.
WorkerLock(w) ==
    /\ Alive
    /\ wpc[w] = "lock"
    /\ lock = NoHolder
    /\ IF poisoned
       THEN /\ wpc' = [wpc EXCEPT ![w] = "panicked"]
            /\ UNCHANGED lock
       ELSE /\ lock' = w
            /\ wpc' = [wpc EXCEPT ![w] = "recv"]
    /\ UNCHANGED <<demoVars, size, nprod, ntasks, mainPc, unwinding, sender, queue, poisoned, cur,
                   handle, joinIdx, ppc, sent, startLog, doneLog>>

\* .recv() returning Ok(job); the guard is released at the end of the statement.
WorkerRecvOk(w) ==
    /\ Alive
    /\ wpc[w] = "recv"
    /\ ~RecvDisconnected(queue, sender)
    /\ Len(queue) > 0
    /\ cur' = [cur EXCEPT ![w] = RecvPop(queue).job]
    /\ queue' = RecvPop(queue).rest
    /\ startLog' = Append(startLog, <<RecvPop(queue).job, w>>)
    /\ lock' = GuardAfterRecv(w)
    /\ wpc' = [wpc EXCEPT ![w] = "run"]
    /\ UNCHANGED <<demoVars, size, nprod, ntasks, mainPc, unwinding, sender, poisoned, handle,
                   joinIdx, ppc, sent, doneLog>>

\* .recv() returning Err: "Worker {id} shutting down", break.
WorkerRecvErr(w) ==
    /\ Alive
    /\ wpc[w] = "recv"
    /\ RecvDisconnected(queue, sender)
    /\ lock' = NoHolder
    /\ wpc' = [wpc EXCEPT ![w] = "done"]
    /\ UNCHANGED <<demoVars, size, nprod, ntasks, mainPc, unwinding, sender, queue, poisoned, cur,
                   handle, joinIdx, ppc, sent, startLog, doneLog>>

\* job() returns: back to the head of the loop.
JobReturn(w) ==
    /\ Alive
    /\ wpc[w] = "run"
    /\ cur[w].kind = "ok"
    /\ doneLog' = Append(doneLog, cur[w])
    /\ cur' = [cur EXCEPT ![w] = NoJob]
    /\ wpc' = [wpc EXCEPT ![w] = "lock"]
    /\ lock' = GuardDropped(w)
    /\ UNCHANGED <<demoVars, size, nprod, ntasks, mainPc, unwinding, sender, queue, poisoned,
                   handle, joinIdx, ppc, sent, startLog>>

\* job() panics: nothing in the loop catches it, the thread unwinds and ends.
JobPanic(w) ==
    /\ Alive
    /\ wpc[w] = "run"
    /\ cur[w].kind = "panic"
    /\ doneLog' = Append(doneLog, cur[w])
    /\ cur' = [cur EXCEPT ![w] = NoJob]
    /\ wpc' = [wpc EXCEPT ![w] = "panicked"]
    /\ poisoned' = (poisoned \/ lock = w)
    /\ lock' = GuardDropped(w)
    /\ UNCHANGED <<demoVars, size, nprod, ntasks, mainPc, unwinding, sender, queue, handle,
                   joinIdx, ppc, sent, startLog>>

\* -------------------------------------------------- Drop for ThreadPool
ProducersDone ==
    \A p \in Producers : ppc[p] = "run" => Len(sent[p]) = ntasks

\* The owner reaches drop(pool) once no submitter borrows the pool any more; a
\* submitter that panicked makes the owner run the drop while unwinding.
DropBegin ==
    /\ mainPc = "submit"
    /\ ProducersDone
    /\ unwinding' = (\E p \in Producers : ppc[p] = "panicked")
    /\ sender' = "None"
    /\ joinIdx' = 0
    /\ mainPc' = "drop_loop"
    /\ UNCHANGED <<demoVars, size, nprod, ntasks, queue, lock, poisoned, wpc, cur, handle, ppc,
                   sent, startLog, doneLog>>

\* for worker in &mut self.workers: if let Some(thread) = worker.thread.take()
DropTake ==
    /\ mainPc = "drop_loop"
    /\ IF joinIdx < size
       THEN IF handle[joinIdx]
            THEN /\ handle' = TakeHandle(handle, joinIdx)
                 /\ mainPc' = "drop_join"
                 /\ UNCHANGED joinIdx
            ELSE /\ joinIdx' = joinIdx + 1
                 /\ UNCHANGED <<handle, mainPc>>
       ELSE /\ mainPc' = IF unwinding THEN "unwound" ELSE "returned"
            /\ UNCHANGED <<handle, joinIdx>>
    /\ UNCHANGED <<demoVars, size, nprod, ntasks, unwinding, sender, queue, lock, poisoned, wpc,
                   cur, ppc, sent, startLog, doneLog>>

\* thread.join().unwrap(): Err when the worker thread ended by a panic; a panic
\* raised while the owner is already unwinding aborts the process.
DropJoin ==
    /\ mainPc = "drop_join"
    /\ JoinReady(joinIdx)
    /\ IF wpc[joinIdx] = "panicked"
       THEN /\ mainPc' = IF unwinding THEN "aborted" ELSE "drop_panicked"
            /\ UNCHANGED joinIdx
       ELSE /\ mainPc' = "drop_loop"
            /\ joinIdx' = joinIdx + 1
    /\ UNCHANGED <<demoVars, size, nprod, ntasks, unwinding, sender, queue, lock, poisoned, wpc,
                   cur, handle, ppc, sent, startLog, doneLog>>

\* The body of drop run once more on a pool whose drop has returned: take the
\* sender, then for every worker take the handle and join it if it was Some.
DropAgain ==
    /\ mainPc = "returned"
    /\ \A w \in Workers : (w < size /\ handle[w]) => JoinReady(w)
    /\ sender' = "None"
    /\ handle' = [w \in Workers |-> IF w < size THEN FALSE ELSE handle[w]]
    /\ mainPc' = IF \E w \in Workers : w < size /\ handle[w] /\ wpc[w] = "panicked"
                 THEN "drop_panicked"
                 ELSE "returned"
    /\ UNCHANGED <<demoVars, size, nprod, ntasks, unwinding, queue, lock, poisoned, wpc, cur,
                   joinIdx, ppc, sent, startLog, doneLog>>

Next ==
    \/ New
    \/ \E p \in Producers : Execute(p)
    \/ \E w \in Workers : WorkerLock(w)
    \/ \E w \in Workers : WorkerRecvOk(w)
    \/ \E w \in Workers : WorkerRecvErr(w)
    \/ \E w \in Workers : JobReturn(w)
    \/ \E w \in Workers : JobPanic(w)
    \/ DropBegin
    \/ DropTake
    \/ DropJoin
    \/ DropAgain

Spec == Init /\ [][Next]_vars

\* Every thread that can take a step eventually takes it (preemptive OS threads).
Fairness ==
    /\ WF_vars(New)
    /\ \A p \in Producers : WF_vars(Execute(p))
    /\ \A w \in Workers :
         /\ WF_vars(WorkerLock(w))
         /\ WF_vars(WorkerRecvOk(w))
         /\ WF_vars(WorkerRecvErr(w))
         /\ WF_vars(JobReturn(w))
         /\ WF_vars(JobPanic(w))
    /\ WF_vars(DropBegin)
    /\ WF_vars(DropTake)
    /\ WF_vars(DropJoin)

FairSpec == Spec /\ Fairness

\* ------------------------------------------------------------ vocabulary
StartedAt(p, i) ==
    {n \in 1 .. Len(startLog) : startLog[n][1].prod = p /\ startLog[n][1].idx = i}

DoneAt(p, i) ==
    {n \in 1 .. Len(doneLog) : doneLog[n].prod = p /\ doneLog[n].idx = i}

Spawned(w) == w < size

AllWorkersEnded == \A w \in Workers : Spawned(w) => Terminated(w)

\* ------------------------------------------------------------------ C1
\* C1: when a single caller has made its K execute calls and the drop of the pool
\* has returned, every one of the K jobs was dequeued exactly once, by one worker,
\* and ran exactly once; nothing else was run.
C1_ExactlyOnce ==
    (mainPc = "returned" /\ nprod = 1) =>
        /\ Len(sent[1]) = ntasks
        /\ Len(startLog) = ntasks
        /\ Len(doneLog) = ntasks
        /\ \A i \in 1 .. ntasks :
             /\ Cardinality(StartedAt(1, i)) = 1
             /\ Cardinality(DoneAt(1, i)) = 1

C1_Witness ==
    /\ mainPc = "returned"
    /\ nprod = 1
    /\ ntasks >= 3
    /\ size >= 2
    /\ \A w \in Workers : Spawned(w) => \E n \in 1 .. Len(startLog) : startLog[n][2] = w

\* ------------------------------------------------------------------ C2
\* C2: the drop has not returned while a job is still in the queue or still being
\* run by a worker; once it has returned (the last step of run), every job that
\* was queued has finished.
C2_DropWaits ==
    /\ (Len(queue) > 0 \/ \E w \in Workers : wpc[w] = "run") => mainPc # "returned"
    /\ mainPc = "returned" =>
         \A p \in Producers : \A i \in 1 .. Len(sent[p]) : DoneAt(p, i) # {}

C2_Witness ==
    /\ mainPc = "drop_join"
    /\ Len(queue) > 0
    /\ \E w \in Workers : wpc[w] = "run"

\* ------------------------------------------------------------------ C3
\* C3: with three jobs submitted of which only the middle one panics, once every
\* worker has ended the first and the third job have both completed.
C3_LaterJobsRun ==
    (nprod = 1 /\ sent[1] = <<"ok", "panic", "ok">> /\ size >= 1 /\ AllWorkersEnded) =>
        /\ DoneAt(1, 1) # {}
        /\ DoneAt(1, 3) # {}

\* ------------------------------------------------------------------ C4
\* C4: a worker that stops running a job goes back to its dequeue step, whether
\* the job returned or panicked.
C4_WorkerSurvives ==
    [][\A w \in Workers : (wpc[w] = "run" /\ wpc'[w] # "run") => wpc'[w] = "lock"]_vars

\* ------------------------------------------------------------------ C5
\* C5: an execute call that the channel cannot accept does not panic its caller.
C5_ExecuteNeverPanics ==
    \A p \in Producers : ppc[p] # "panicked"

\* ------------------------------------------------------------------ C6
\* C6: once the drop has begun, every worker eventually leaves its loop through
\* the closed-and-empty branch and the drop eventually returns.
C6_ShutdownCompletes ==
    (mainPc = "drop_loop") ~>
        (mainPc = "returned" /\ \A w \in Workers : Spawned(w) => wpc[w] = "done")

\* ------------------------------------------------------------------ C7
\* C7: with size = 0 nothing but the failed assertion ever happens: no sender, no
\* worker thread, no handle, no execute call, no job.
C7_ZeroWorkers ==
    size = 0 =>
        /\ mainPc \in {"new", "new_panicked"}
        /\ sender = "None"
        /\ \A w \in Workers : wpc[w] = "unborn" /\ ~handle[w]
        /\ \A p \in Producers : ppc[p] = "idle" /\ sent[p] = <<>>
        /\ queue = <<>>
        /\ startLog = <<>>

C7_Witness ==
    size = 0 /\ mainPc = "new_panicked" /\ ntasks > 0

\* ------------------------------------------------------------------ C8
\* C8: the jobs of one submitter are dequeued in the order it submitted them: a
\* dequeued job is preceded in the dequeue order by all earlier jobs of its
\* submitter, and followed by none of them.
C8_FifoPerProducer ==
    \A n \in 1 .. Len(startLog) :
        LET j == startLog[n][1] IN
        /\ \A i \in 1 .. (j.idx - 1) : \E m \in 1 .. (n - 1) :
               startLog[m][1].prod = j.prod /\ startLog[m][1].idx = i
        /\ \A m \in (n + 1) .. Len(startLog) :
               startLog[m][1].prod = j.prod => startLog[m][1].idx > j.idx

C8_Witness ==
    /\ nprod = 1
    /\ size >= 2
    /\ Len(startLog) >= 3
    /\ Len(queue) >= 1
    /\ \A w \in Workers : Spawned(w) => \E n \in 1 .. Len(startLog) : startLog[n][2] = w

\* ------------------------------------------------------------------ C9
\* C9: after the drop has returned, the number of finished job executions is
\* nprod * ntasks, for one submitter as for several.
C9_CountPM ==
    mainPc = "returned" => Len(doneLog) = nprod * ntasks

C9_Witness ==
    /\ mainPc = "returned"
    /\ nprod >= 2
    /\ ntasks >= 2
    /\ size >= 2
    /\ \E n \in 1 .. (Len(startLog) - 1) :
         startLog[n][1].prod > startLog[n + 1][1].prod

\* ----------------------------------------------------------------- C10
\* C10: on a pool whose drop has returned, the body of drop can run again without
\* waiting and leaves every variable as it was.
C10_DropIdempotent ==
    mainPc = "returned" =>
        /\ ENABLED DropAgain
        /\ ~ENABLED (DropAgain /\ vars' # vars)

C10_Witness ==
    /\ mainPc = "returned"
    /\ size >= 2
    /\ Len(doneLog) >= 1

\* ----------------------------------------------------------------- C11
\* C11: while the channel is connected (sender present, a receiver alive), a
\* pending execute call can always take its step, whatever the workers are doing
\* and however long the queue is, and every such step only appends its job at the
\* tail of the queue (and records the call as made).
Connected == sender = "Some" /\ ReceiverAlive

Pending(p) == mainPc = "submit" /\ ppc[p] = "run" /\ Len(sent[p]) < ntasks

AppendsOnly(p) ==
    /\ \E k \in Kinds :
         /\ queue' = Append(queue, [prod |-> p, idx |-> Len(sent[p]) + 1, kind |-> k])
         /\ sent' = [sent EXCEPT ![p] = Append(@, k)]
    /\ UNCHANGED <<demoVars, size, nprod, ntasks, mainPc, unwinding, sender, lock, poisoned, wpc,
                   cur, handle, joinIdx, ppc, startLog, doneLog>>

C11_ExecuteNeverWaits ==
    \A p \in Producers :
        (Pending(p) /\ Connected) =>
            /\ ENABLED Execute(p)
            /\ ~ENABLED (Execute(p) /\ ~AppendsOnly(p))

C11_Witness ==
    /\ size >= 2
    /\ \A w \in Workers : Spawned(w) => wpc[w] = "run"
    /\ Len(queue) >= 1
    /\ \E p \in Producers : Pending(p)

\* ----------------------------------------------------------------- C12
\* C12: when the drop has ended, by returning or by unwinding from a failed join,
\* every worker thread has ended and no handle is left untaken.
C12_AllJoinedAtEnd ==
    mainPc \in {"returned", "drop_panicked"} =>
        \A w \in Workers : Spawned(w) => (Terminated(w) /\ ~handle[w])

\* ----------------------------------------------------------------- C13
\* C13: a worker thread that has ended implies that the sender was dropped and
\* that no job is left in the queue.
C13_ExitOnlyWhenDrained ==
    \A w \in Workers : Terminated(w) => (sender = "None" /\ Len(queue) = 0)

\* ----------------------------------------------------------------- C14
\* C14: once the sender is dropped, a recv that returns hands out the oldest job
\* still queued and takes it off the queue; it returns Err, and the worker leaves
\* its loop, only with the queue empty.
C14_ClosedQueueDrains ==
    [][\A w \in Workers :
         (sender = "None" /\ wpc[w] = "recv" /\ wpc'[w] # "recv") =>
            IF Len(queue) > 0
            THEN /\ wpc'[w] = "run"
                 /\ cur'[w] = Head(queue)
                 /\ queue' = Tail(queue)
            ELSE /\ wpc'[w] = "done"
                 /\ queue' = queue]_vars

C14_Witness ==
    /\ sender = "None"
    /\ Len(queue) >= 2
    /\ \E w \in Workers : wpc[w] = "recv"

\* ----------------------------------------------------------------- C15
\* C15: a join that fails makes the drop end by a panic that reaches the caller
\* of drop.
C15_JoinFailurePropagates ==
    [][(mainPc = "drop_join" /\ mainPc' # "drop_join" /\ wpc[joinIdx] = "panicked") =>
          mainPc' = "drop_panicked"]_vars

\* ----------------------------------------------------------------- C16
\* C16: a step starts at most one job, and it is the worker inside recv, holding
\* the receiver mutex, that starts it, with the job at the head of the queue; no
\* other worker moves, a job leaves the queue only that way (never to a worker
\* that is running a job), an execute call starts nothing by itself, and no job is
\* handed out twice.
Starters == {w \in Workers : wpc[w] # "run" /\ wpc'[w] = "run"}

C16_OneWorkerPerJob ==
    [][/\ Cardinality(Starters) <= 1
       /\ \A w \in Starters :
            /\ wpc[w] = "recv"
            /\ lock = w
            /\ cur'[w] = Head(queue)
            /\ queue' = Tail(queue)
            /\ \A v \in Workers \ {w} : wpc'[v] = wpc[v] /\ cur'[v] = cur[v]
       /\ Len(queue') < Len(queue) => Starters # {}
       /\ Len(queue') > Len(queue) => Starters = {}
       /\ \A m, n \in 1 .. Len(startLog') :
            startLog'[m][1] = startLog'[n][1] => m = n]_vars

C16_Witness ==
    /\ size >= 2
    /\ mainPc = "submit"
    /\ Len(startLog) = 1
    /\ Len(queue) = 0
    /\ \E w \in Workers : wpc[w] = "run"
    /\ \E v \in Workers : wpc[v] = "lock" /\ lock = NoHolder

\* ----------------------------------------------------------------- C17
\* A worker is suspended when it sits at the lock or inside recv and cannot move.
Suspended(w) ==
    /\ Alive
    /\ wpc[w] \in {"lock", "recv"}
    /\ ~ENABLED (WorkerLock(w) \/ WorkerRecvOk(w) \/ WorkerRecvErr(w))

\* C17 as stated: a suspended worker implies an empty and still open queue.
C17_BlockedOnlyOnEmptyOpen ==
    \A w \in Workers : Suspended(w) => (Len(queue) = 0 /\ sender = "Some")

\* C17 as amended: a worker suspended while the queue holds a job or is closed is
\* waiting for the receiver mutex, whose holder is inside recv and not suspended;
\* a worker inside recv is suspended only on an empty and still open queue.
C17_BlockedOnlyTransiently ==
    \A w \in Workers :
        Suspended(w) =>
            \/ Len(queue) = 0 /\ sender = "Some"
            \/ /\ wpc[w] = "lock"
               /\ lock \in Workers \ {w}
               /\ wpc[lock] = "recv"
               /\ ~Suspended(lock)

C17_Witness ==
    \E w \in Workers : Suspended(w) /\ wpc[w] = "lock" /\ Len(queue) > 0

\* ----------------------------------------------------------------- C18
\* C18: a worker that is running a job does not hold the receiver mutex (its only
\* holder is a worker inside recv), so beside a running worker another worker at
\* the free lock can take it and another worker inside recv with a job queued
\* can dequeue; all workers can be running at once (the witness).
C18_ParallelJobs ==
    /\ \A w \in Workers : wpc[w] = "run" => lock # w
    /\ lock # NoHolder => wpc[lock] = "recv"
    /\ \A w, v \in Workers :
         (Alive /\ wpc[w] = "run" /\ v # w) =>
            /\ (wpc[v] = "lock" /\ lock = NoHolder) => ENABLED WorkerLock(v)
            /\ (wpc[v] = "recv" /\ Len(queue) > 0) => ENABLED WorkerRecvOk(v)

C18_Witness ==
    /\ size >= 2
    /\ \A w \in Workers : Spawned(w) => wpc[w] = "run"
    /\ \A w, v \in Workers : (Spawned(w) /\ Spawned(v) /\ w # v) => cur[w] # cur[v]

\* ----------------------------------------------------------------- C19
\* C19: with one worker the jobs of a submitter finish in the order it submitted
\* them; with two workers a later job can finish before an earlier one of the same
\* submitter (the witness).
C19_OneWorkerFinishesInOrder ==
    size = 1 =>
        \A m, n \in 1 .. Len(doneLog) :
            (m < n /\ doneLog[m].prod = doneLog[n].prod) => doneLog[m].idx < doneLog[n].idx

C19_Witness ==
    /\ size >= 2
    /\ \E m, n \in 1 .. Len(doneLog) :
         m < n /\ doneLog[m].prod = doneLog[n].prod /\ doneLog[m].idx > doneLog[n].idx

\* ----------------------------------------------------------------- C20
\* C20: the receiver mutex is never poisoned and is never held by a worker whose
\* job is running, so every worker that ended by a panic ended by the panic of a
\* job, none by a failed lock().unwrap().
PanickedJobs == {n \in 1 .. Len(doneLog) : doneLog[n].kind = "panic"}

C20_NeverPoisoned ==
    /\ ~poisoned
    /\ \A w \in Workers : wpc[w] \in {"run", "panicked"} => lock # w
    /\ Cardinality({w \in Workers : wpc[w] = "panicked"}) = Cardinality(PanickedJobs)

C20_Witness ==
    /\ Len(doneLog) >= 2
    /\ doneLog[1].kind = "panic"
    /\ \E v \in Workers :
         /\ wpc[v] = "recv"
         /\ \E n \in 1 .. Len(startLog) :
              startLog[n][1] = doneLog[2] /\ startLog[n][2] = v

\* ======================================================================
\* shared_state::run (src/src/tools/shared_state/code.rs)
\* ======================================================================
\* The pool as it is while another program runs: never constructed.
PoolIdle ==
    /\ size = 0
    /\ nprod = 1
    /\ ntasks = 0
    /\ mainPc = "idle"
    /\ unwinding = FALSE
    /\ sender = "None"
    /\ queue = <<>>
    /\ lock = NoHolder
    /\ poisoned = FALSE
    /\ wpc = [w \in Workers |-> "unborn"]
    /\ cur = [w \in Workers |-> NoJob]
    /\ handle = [w \in Workers |-> FALSE]
    /\ joinIdx = 0
    /\ ppc = [p \in Producers |-> "idle"]
    /\ sent = [p \in Producers |-> <<>>]
    /\ startLog = <<>>
    /\ doneLog = <<>>

\* self.value.lock(): the mutex is taken only when nobody holds it.
MutexFreeIgnored(h) == TRUE
MutexFree(h) == h = NoHolder

\* *num += 1
Incremented(v) == v + 1

CounterInit ==
    /\ PoolIdle
    /\ MsgIdle
    /\ num_threads \in 0 .. MaxThreads
    /\ increments_per_thread \in 0 .. MaxIncrements
    /\ value = 0
    /\ vlock = NoHolder
    /\ tpc = [t \in Threads |-> "unborn"]
    /\ ti = [t \in Threads |-> 0]
    /\ tmp = [t \in Threads |-> 0]
    /\ cpc = "spawn"
    /\ cidx = 0
    /\ final_value = 0

\* for thread_id in 0..num_threads: thread::spawn, handles.push
CounterSpawn ==
    /\ cpc = "spawn"
    /\ IF cidx < num_threads
       THEN /\ tpc' = [tpc EXCEPT ![cidx] = "lock"]
            /\ cidx' = cidx + 1
            /\ UNCHANGED cpc
       ELSE /\ cpc' = "join"
            /\ cidx' = 0
            /\ UNCHANGED tpc
    /\ UNCHANGED <<poolVars, msgVars, num_threads, increments_per_thread, value, vlock,
                   ti, tmp, final_value>>

\* Counter::increment: let mut num = self.value.lock().unwrap()
IncLock(t) ==
    /\ tpc[t] = "lock"
    /\ ti[t] < increments_per_thread
    /\ MutexFree(vlock)
    /\ vlock' = t
    /\ tpc' = [tpc EXCEPT ![t] = "load"]
    /\ UNCHANGED <<poolVars, msgVars, num_threads, increments_per_thread, value, ti,
                   tmp, cpc, cidx, final_value>>

\* *num += 1, the read
IncLoad(t) ==
    /\ tpc[t] = "load"
    /\ tmp' = [tmp EXCEPT ![t] = value]
    /\ tpc' = [tpc EXCEPT ![t] = "store"]
    /\ UNCHANGED <<poolVars, msgVars, num_threads, increments_per_thread, value, vlock,
                   ti, cpc, cidx, final_value>>

\* *num += 1, the write
IncStore(t) ==
    /\ tpc[t] = "store"
    /\ value' = Incremented(tmp[t])
    /\ tpc' = [tpc EXCEPT ![t] = "unlock"]
    /\ UNCHANGED <<poolVars, msgVars, num_threads, increments_per_thread, vlock, ti,
                   tmp, cpc, cidx, final_value>>

\* increment returns: the guard num is dropped; next i of the thread's loop
IncUnlock(t) ==
    /\ tpc[t] = "unlock"
    /\ vlock' = NoHolder
    /\ ti' = [ti EXCEPT ![t] = @ + 1]
    /\ tpc' = [tpc EXCEPT ![t] = "lock"]
    /\ UNCHANGED <<poolVars, msgVars, num_threads, increments_per_thread, value, tmp,
                   cpc, cidx, final_value>>

\* the loop 0..increments_per_thread is over: the thread ends
ThreadEnd(t) ==
    /\ tpc[t] = "lock"
    /\ ti[t] = increments_per_thread
    /\ tpc' = [tpc EXCEPT ![t] = "done"]
    /\ UNCHANGED <<poolVars, msgVars, num_threads, increments_per_thread, value, vlock,
                   ti, tmp, cpc, cidx, final_value>>

\* for handle in handles: handle.join().unwrap()
CounterJoin ==
    /\ cpc = "join"
    /\ IF cidx < num_threads
       THEN /\ tpc[cidx] = "done"
            /\ cidx' = cidx + 1
            /\ UNCHANGED cpc
       ELSE /\ cpc' = "get_value"
            /\ UNCHANGED cidx
    /\ UNCHANGED <<poolVars, msgVars, num_threads, increments_per_thread, value, vlock,
                   tpc, ti, tmp, final_value>>

\* let final_value = counter.get_value(); then the comparison with
\* expected_value = num_threads * increments_per_thread
CounterGetValue ==
    /\ cpc = "get_value"
    /\ MutexFree(vlock)
    /\ final_value' = value
    /\ cpc' = IF value = num_threads * increments_per_thread THEN "correct" ELSE "mismatch"
    /\ UNCHANGED <<poolVars, msgVars, num_threads, increments_per_thread, value, vlock,
                   tpc, ti, tmp, cidx>>

CounterNext ==
    \/ CounterSpawn
    \/ \E t \in Threads : IncLock(t)
    \/ \E t \in Threads : IncLoad(t)
    \/ \E t \in Threads : IncStore(t)
    \/ \E t \in Threads : IncUnlock(t)
    \/ \E t \in Threads : ThreadEnd(t)
    \/ CounterJoin
    \/ CounterGetValue

CounterSpec == CounterInit /\ [][CounterNext]_vars

\* ----------------------------------------------------------------- C21
\* C21: when run has read the counter, the value read is num_threads *
\* increments_per_thread and run is on the 'Counter is correct' branch; while the
\* threads run, the counter equals the number of increments already stored.
StoredIncrements(t) == ti[t] + (IF tpc[t] = "unlock" THEN 1 ELSE 0)

RECURSIVE SumStored(_)
SumStored(n) == IF n = 0 THEN 0 ELSE StoredIncrements(n - 1) + SumStored(n - 1)

C21_NoLostIncrement ==
    /\ value = SumStored(MaxThreads)
    /\ cpc # "mismatch"
    /\ cpc = "correct" => final_value = num_threads * increments_per_thread

C21_Witness ==
    /\ cpc = "correct"
    /\ num_threads >= 2
    /\ increments_per_thread >= 2
    /\ final_value = num_threads * increments_per_thread

\* ======================================================================
\* message_passing::run_mpsc (src/src/tools/message_passing/code.rs)
\* ======================================================================
\* A sender thread owns its clone of tx from its spawn until its closure ends.
SenderAlive == tx \/ \E s \in Senders : spc[s] = "send"

\* The receiving end exists while the spawning thread holds rx or a receiver
\* thread is in its loop.
ReceiverConnected == rx \/ \E r \in Receivers : rpc[r] = "recv"

\* recv on a channel: Err only when it is empty and no sender is left.
ChanDisconnectedOnEmpty(q, alive) == Len(q) = 0
ChanDisconnected(q, alive) == Len(q) = 0 /\ ~alive

MsgInputs ==
    /\ num_senders \in 0 .. MaxSenders
    /\ messages_per_sender \in 0 .. MaxMessages
    /\ num_senders * messages_per_sender <= MaxMessages

MpscInit ==
    /\ PoolIdle
    /\ CounterIdle
    /\ MsgInputs
    /\ chan = <<>>
    /\ tx = TRUE
    /\ rx = TRUE
    /\ spc = [s \in Senders |-> "unborn"]
    /\ msg_num = [s \in Senders |-> 0]
    /\ rpc = [r \in Receivers |-> "unborn"]
    /\ count = [r \in Receivers |-> 0]
    /\ received = <<>>
    /\ mpc = "spawn"
    /\ midx = 0

\* for sender_id in 0..num_senders: tx.clone(), thread::spawn, handles.push
MpscSpawnSender ==
    /\ mpc = "spawn"
    /\ IF midx < num_senders
       THEN /\ spc' = [spc EXCEPT ![midx] = "send"]
            /\ midx' = midx + 1
            /\ UNCHANGED mpc
       ELSE /\ mpc' = "drop_tx"
            /\ UNCHANGED <<spc, midx>>
    /\ UNCHANGED <<poolVars, counterVars, num_senders, messages_per_sender, chan, tx, rx,
                   msg_num, rpc, count, received>>

\* drop(tx)
MpscDropTx ==
    /\ mpc = "drop_tx"
    /\ tx' = FALSE
    /\ mpc' = "spawn_rx"
    /\ UNCHANGED <<poolVars, counterVars, num_senders, messages_per_sender, chan, rx, spc,
                   msg_num, rpc, count, received, midx>>

\* let receiver_handle = thread::spawn(move || ...): rx moves into the thread
MpscSpawnReceiver ==
    /\ mpc = "spawn_rx"
    /\ rx' = FALSE
    /\ rpc' = [rpc EXCEPT ![0] = "recv"]
    /\ mpc' = "join"
    /\ midx' = 0
    /\ UNCHANGED <<poolVars, counterVars, num_senders, messages_per_sender, chan, tx, spc,
                   msg_num, count, received>>

\* tx_clone.send(message).unwrap() for the next msg_num
MpscSend(s) ==
    /\ spc[s] = "send"
    /\ msg_num[s] < messages_per_sender
    /\ IF ReceiverConnected
       THEN /\ chan' = Append(chan, <<s, msg_num[s]>>)
            /\ msg_num' = [msg_num EXCEPT ![s] = @ + 1]
            /\ UNCHANGED spc
       ELSE /\ spc' = [spc EXCEPT ![s] = "panicked"]
            /\ UNCHANGED <<chan, msg_num>>
    /\ UNCHANGED <<poolVars, counterVars, num_senders, messages_per_sender, tx, rx, rpc,
                   count, received, mpc, midx>>

\* the loop 0..messages_per_sender is over: the closure ends and drops tx_clone
MpscSenderEnd(s) ==
    /\ spc[s] = "send"
    /\ msg_num[s] = messages_per_sender
    /\ spc' = [spc EXCEPT ![s] = "done"]
    /\ UNCHANGED <<poolVars, counterVars, num_senders, messages_per_sender, chan, tx, rx,
                   msg_num, rpc, count, received, mpc, midx>>

\* for received in rx: the next message; count += 1
MpscRecv ==
    /\ rpc[0] = "recv"
    /\ ~ChanDisconnected(chan, SenderAlive)
    /\ Len(chan) > 0
    /\ received' = Append(received, <<Head(chan)[1], Head(chan)[2], 0>>)
    /\ chan' = Tail(chan)
    /\ count' = [count EXCEPT ![0] = @ + 1]
    /\ UNCHANGED <<poolVars, counterVars, num_senders, messages_per_sender, tx, rx, spc,
                   msg_num, rpc, mpc, midx>>

\* for received in rx: the iterator ends; "Receiver got {count} total messages"
MpscRecvEnd ==
    /\ rpc[0] = "recv"
    /\ ChanDisconnected(chan, SenderAlive)
    /\ rpc' = [rpc EXCEPT ![0] = "done"]
    /\ UNCHANGED <<poolVars, counterVars, num_senders, messages_per_sender, chan, tx, rx,
                   spc, msg_num, count, received, mpc, midx>>

\* for handle in handles: handle.join().unwrap()
MpscJoin ==
    /\ mpc = "join"
    /\ IF midx < num_senders
       THEN /\ spc[midx] \in {"done", "panicked"}
            /\ IF spc[midx] = "panicked"
               THEN mpc' = "panicked" /\ UNCHANGED midx
               ELSE midx' = midx + 1 /\ UNCHANGED mpc
       ELSE /\ mpc' = "join_rx"
            /\ UNCHANGED midx
    /\ UNCHANGED <<poolVars, counterVars, num_senders, messages_per_sender, chan, tx, rx,
                   spc, msg_num, rpc, count, received>>

\* receiver_handle.join().unwrap()
MpscJoinReceiver ==
    /\ mpc = "join_rx"
    /\ rpc[0] = "done"
    /\ mpc' = "end"
    /\ UNCHANGED <<poolVars, counterVars, num_senders, messages_per_sender, chan, tx, rx,
                   spc, msg_num, rpc, count, received, midx>>

MpscNext ==
    \/ MpscSpawnSender
    \/ MpscDropTx
    \/ MpscSpawnReceiver
    \/ \E s \in Senders : MpscSend(s)
    \/ \E s \in Senders : MpscSenderEnd(s)
    \/ MpscRecv
    \/ MpscRecvEnd
    \/ MpscJoin
    \/ MpscJoinReceiver

MpscSpec == MpscInit /\ [][MpscNext]_vars

\* Every thread of run_mpsc that can take a step eventually takes it.
MpscFairness ==
    /\ WF_vars(MpscSpawnSender)
    /\ WF_vars(MpscDropTx)
    /\ WF_vars(MpscSpawnReceiver)
    /\ \A s \in Senders : WF_vars(MpscSend(s)) /\ WF_vars(MpscSenderEnd(s))
    /\ WF_vars(MpscRecv)
    /\ WF_vars(MpscRecvEnd)
    /\ WF_vars(MpscJoin)
    /\ WF_vars(MpscJoinReceiver)

MpscFairSpec == MpscSpec /\ MpscFairness

\* ----------------------------------------------------------------- C22
\* C22: the receiver thread of run_mpsc eventually ends its loop, and whenever it
\* has ended it no sender is left, it has counted num_senders *
\* messages_per_sender messages, each received once, and the messages of each
\* sender were received in the order of their msg_num.
MpscAllReceived ==
    /\ ~SenderAlive
    /\ count[0] = num_senders * messages_per_sender
    /\ Len(received) = count[0]
    /\ \A s \in Senders : \A n \in 0 .. (messages_per_sender - 1) :
         s < num_senders => \E i \in 1 .. Len(received) : received[i] = <<s, n, 0>>
    /\ \A i, j \in 1 .. Len(received) :
         (i < j /\ received[i][1] = received[j][1]) => received[i][2] < received[j][2]

C22_MpscReceivesAll ==
    /\ <>(rpc[0] = "done")
    /\ [](rpc[0] = "done" => MpscAllReceived)

C22_Witness ==
    /\ rpc[0] = "done"
    /\ num_senders >= 2
    /\ messages_per_sender >= 2
    /\ count[0] = 4
    /\ received[1][1] # received[2][1]

\* ======================================================================
\* message_passing::run_crossbeam (src/src/tools/message_passing/code.rs)
\* ======================================================================
\* rx_clone.recv() on the unbounded channel: Err only when it is empty and every
\* sender has been dropped.
CbDisconnectedOnEmpty(q, alive) == Len(q) = 0
CbDisconnected(q, alive) == Len(q) = 0 /\ ~alive

CbInit ==
    /\ PoolIdle
    /\ CounterIdle
    /\ MsgInputs
    /\ chan = <<>>
    /\ tx = TRUE
    /\ rx = TRUE
    /\ spc = [s \in Senders |-> "unborn"]
    /\ msg_num = [s \in Senders |-> 0]
    /\ rpc = [r \in Receivers |-> "unborn"]
    /\ count = [r \in Receivers |-> 0]
    /\ received = <<>>
    /\ mpc = "spawn"
    /\ midx = 0

\* for sender_id in 0..num_senders: tx.clone(), thread::spawn, handles.push
CbSpawnSender ==
    /\ mpc = "spawn"
    /\ IF midx < num_senders
       THEN /\ spc' = [spc EXCEPT ![midx] = "send"]
            /\ midx' = midx + 1
            /\ UNCHANGED mpc
       ELSE /\ mpc' = "drop_tx"
            /\ UNCHANGED <<spc, midx>>
    /\ UNCHANGED <<poolVars, counterVars, num_senders, messages_per_sender, chan, tx, rx,
                   msg_num, rpc, count, received>>

\* drop(tx)
CbDropTx ==
    /\ mpc = "drop_tx"
    /\ tx' = FALSE
    /\ mpc' = "spawn_rx"
    /\ midx' = 0
    /\ UNCHANGED <<poolVars, counterVars, num_senders, messages_per_sender, chan, rx, spc,
                   msg_num, rpc, count, received>>

\* for receiver_id in 0..num_receivers: rx.clone(), thread::spawn, push
CbSpawnReceiver ==
    /\ mpc = "spawn_rx"
    /\ IF midx < NumReceivers
       THEN /\ rpc' = [rpc EXCEPT ![midx] = "recv"]
            /\ midx' = midx + 1
            /\ UNCHANGED mpc
       ELSE /\ mpc' = "drop_rx"
            /\ UNCHANGED <<rpc, midx>>
    /\ UNCHANGED <<poolVars, counterVars, num_senders, messages_per_sender, chan, tx, rx,
                   spc, msg_num, count, received>>

\* drop(rx)
CbDropRx ==
    /\ mpc = "drop_rx"
    /\ rx' = FALSE
    /\ mpc' = "join"
    /\ midx' = 0
    /\ UNCHANGED <<poolVars, counterVars, num_senders, messages_per_sender, chan, tx, spc,
                   msg_num, rpc, count, received>>

\* tx_clone.send(message).unwrap() for the next msg_num
CbSend(s) ==
    /\ spc[s] = "send"
    /\ msg_num[s] < messages_per_sender
    /\ IF ReceiverConnected
       THEN /\ chan' = Append(chan, <<s, msg_num[s]>>)
            /\ msg_num' = [msg_num EXCEPT ![s] = @ + 1]
            /\ UNCHANGED spc
       ELSE /\ spc' = [spc EXCEPT ![s] = "panicked"]
            /\ UNCHANGED <<chan, msg_num>>
    /\ UNCHANGED <<poolVars, counterVars, num_senders, messages_per_sender, tx, rx, rpc,
                   count, received, mpc, midx>>

\* the loop 0..messages_per_sender is over: the closure ends and drops tx_clone
CbSenderEnd(s) ==
    /\ spc[s] = "send"
    /\ msg_num[s] = messages_per_sender
    /\ spc' = [spc EXCEPT ![s] = "done"]
    /\ UNCHANGED <<poolVars, counterVars, num_senders, messages_per_sender, chan, tx, rx,
                   msg_num, rpc, count, received, mpc, midx>>

\* while let Ok(message) = rx_clone.recv(): receiver r takes the oldest message
CbRecv(r) ==
    /\ rpc[r] = "recv"
    /\ ~CbDisconnected(chan, SenderAlive)
    /\ Len(chan) > 0
    /\ received' = Append(received, <<Head(chan)[1], Head(chan)[2], r>>)
    /\ chan' = Tail(chan)
    /\ count' = [count EXCEPT ![r] = @ + 1]
    /\ UNCHANGED <<poolVars, counterVars, num_senders, messages_per_sender, tx, rx, spc,
                   msg_num, rpc, mpc, midx>>

\* recv() returned Err: "Receiver {r} processed {count} messages"
CbRecvEnd(r) ==
    /\ rpc[r] = "recv"
    /\ CbDisconnected(chan, SenderAlive)
    /\ rpc' = [rpc EXCEPT ![r] = "done"]
    /\ UNCHANGED <<poolVars, counterVars, num_senders, messages_per_sender, chan, tx, rx,
                   spc, msg_num, count, received, mpc, midx>>

\* for handle in handles: handle.join().unwrap()
CbJoin ==
    /\ mpc = "join"
    /\ IF midx < num_senders
       THEN /\ spc[midx] \in {"done", "panicked"}
            /\ IF spc[midx] = "panicked"
               THEN mpc' = "panicked" /\ UNCHANGED midx
               ELSE midx' = midx + 1 /\ UNCHANGED mpc
       ELSE /\ mpc' = "join_rx"
            /\ midx' = 0
    /\ UNCHANGED <<poolVars, counterVars, num_senders, messages_per_sender, chan, tx, rx,
                   spc, msg_num, rpc, count, received>>

\* for handle in receiver_handles: handle.join().unwrap()
CbJoinReceiver ==
    /\ mpc = "join_rx"
    /\ IF midx < NumReceivers
       THEN /\ rpc[midx] = "done"
            /\ midx' = midx + 1
            /\ UNCHANGED mpc
       ELSE /\ mpc' = "end"
            /\ UNCHANGED midx
    /\ UNCHANGED <<poolVars, counterVars, num_senders, messages_per_sender, chan, tx, rx,
                   spc, msg_num, rpc, count, received>>

CbNext ==
    \/ CbSpawnSender
    \/ CbDropTx
    \/ CbSpawnReceiver
    \/ CbDropRx
    \/ \E s \in Senders : CbSend(s)
    \/ \E s \in Senders : CbSenderEnd(s)
    \/ \E r \in Receivers : CbRecv(r)
    \/ \E r \in Receivers : CbRecvEnd(r)
    \/ CbJoin
    \/ CbJoinReceiver

CbSpec == CbInit /\ [][CbNext]_vars

\* Every thread of run_crossbeam that can take a step eventually takes it.
CbFairness ==
    /\ WF_vars(CbSpawnSender)
    /\ WF_vars(CbDropTx)
    /\ WF_vars(CbSpawnReceiver)
    /\ WF_vars(CbDropRx)
    /\ \A s \in Senders : WF_vars(CbSend(s)) /\ WF_vars(CbSenderEnd(s))
    /\ \A r \in Receivers : WF_vars(CbRecv(r)) /\ WF_vars(CbRecvEnd(r))
    /\ WF_vars(CbJoin)
    /\ WF_vars(CbJoinReceiver)

CbFairSpec == CbSpec /\ CbFairness

\* Number of times message n of sender s is waiting in the channel.
InChannel(s, n) == Cardinality({i \in 1 .. Len(chan) : chan[i] = <<s, n>>})

\* Number of times message n of sender s was taken by some receiver.
TimesReceived(s, n) ==
    Cardinality({i \in 1 .. Len(received) : received[i][1] = s /\ received[i][2] = n})

\* Every message sent so far is in the channel or with exactly one receiver.
CbEachSentOnce ==
    \A s \in Senders : \A n \in 0 .. (MaxMessages + 1) :
        n < msg_num[s] => InChannel(s, n) + TimesReceived(s, n) = 1

\* The receivers' counts are the numbers of messages each one took.
CbCountsMatch ==
    \A r \in Receivers :
        count[r] = Cardinality({i \in 1 .. Len(received) : received[i][3] = r})

CbAllDone == \A r \in Receivers : rpc[r] = "done"

\* ----------------------------------------------------------------- C23
\* C23: in run_crossbeam every message sent is taken by exactly one of the two
\* receivers, a receiver ends only when no sender is left and the channel is
\* empty, both receivers eventually end, and then their counts sum to
\* num_senders * messages_per_sender.
C23_CbExactlyOneReceiver ==
    /\ <>CbAllDone
    /\ [](CbEachSentOnce /\ CbCountsMatch)
    /\ [](\A r \in Receivers : rpc[r] = "done" => ~SenderAlive /\ Len(chan) = 0)
    /\ [](CbAllDone =>
            /\ count[0] + count[1] = num_senders * messages_per_sender
            /\ \A s \in Senders : \A n \in 0 .. (messages_per_sender - 1) :
                 s < num_senders => TimesReceived(s, n) = 1)

C23_Witness ==
    /\ CbAllDone
    /\ num_senders >= 2
    /\ messages_per_sender >= 2
    /\ count[0] >= 1
    /\ count[1] >= 1
    /\ count[0] + count[1] = 4

====
